---- MODULE Spec2Model ----
(***************************************************************************)
(* PumpGuard: the bounded-queue, rate-limited mint resolution pipeline of  *)
(* src/index.ts (onLogs feed callback, startMintWorker timer callback,     *)
(* appendLaunch sink) and the queue of src/watch.ts, fed side by side by   *)
(* the same log subscription.                                              *)
(*                                                                         *)
(* JavaScript numbers that come from the environment are modelled as       *)
(* records: a finite value in halves (h = 2 * value), NaN, or +Infinity,   *)
(* so that the comparisons of the code behave on them as they do in JS.    *)
(***************************************************************************)
EXTENDS Integers, Sequences, FiniteSets, TLC

\* ---------------------------------------------------------------- bounds
\* Number of log events the feed delivers in a run.
MaxPushes == 103
\* Number of events the worker dequeues in a run.
MaxPops == 2

\* ------------------------------------------------------ program constants
DefaultQueueMax == 2000
MinQueueMax == 100
DefaultFetchRps == 3
MsPerSecond == 1000
FloorIntervalMs == 200

\* ------------------------------------------------------------ JS numbers
Fin(h) == [k |-> "fin", h |-> h]
Num(i) == Fin(2 * i)
NaN == [k |-> "nan", h |-> 0]
Infinity == [k |-> "inf", h |-> 0]

\* process.env.X when the variable is not set
Unset == "<undefined>"

\* Number(raw) on the strings the environments below use
Number(raw) ==
  CASE raw = ""         -> Num(0)
    [] raw = "abc"      -> NaN
    [] raw = "Infinity" -> Infinity
    [] raw = "-1"       -> Num(-1)
    [] raw = "0"        -> Num(0)
    [] raw = "0.5"      -> Fin(1)
    [] raw = "1"        -> Num(1)
    [] raw = "2"        -> Num(2)
    [] raw = "10"       -> Num(10)
    [] raw = "100"      -> Num(100)
    [] raw = "100.5"    -> Fin(201)
    [] raw = "101"      -> Num(101)
    [] raw = "2000"     -> Num(2000)
    [] raw = "1000000"  -> Num(1000000)

\* JS truthiness of an environment string (undefined and "" are falsy)
Truthy(raw) == raw # Unset /\ raw # ""

\* Number.isFinite(n)
IsFinite(n) == n.k = "fin"

\* a <= b, a >= b and a > b on JS numbers: every comparison with NaN is false
Le(a, b) ==
  CASE a.k = "nan" \/ b.k = "nan" -> FALSE
    [] b.k = "inf" -> TRUE
    [] a.k = "inf" -> FALSE
    [] OTHER -> a.h <= b.h
Ge(a, b) == Le(b, a)
Gt(a, b) == Ge(a, b) /\ ~Le(a, b)

\* the environments a run can start in: MINT_QUEUE_MAX and MINT_FETCH_RPS
Envs ==
  { [MINT_QUEUE_MAX |-> q, MINT_FETCH_RPS |-> r] :
      <<q, r>> \in { <<Unset, Unset>>, <<"", "0">>, <<"abc", "abc">>,
                     <<"-1", "2">>, <<"1", "10">>, <<"2", "0.5">>,
                     <<"100", "Infinity">>, <<"100.5", "">>,
                     <<"101", "-1">> } }

VARIABLES
  env,                  \* process.env, fixed at start
  alive,                \* the Node process is running
  clock,                \* number of log events the feed has delivered
  pendingQueue,         \* index.ts runWatch: pendingQueue
  droppedDueToOverflow, \* index.ts runWatch: droppedDueToOverflow
  processing,           \* index.ts startMintWorker: processing
  inflight,             \* getTransaction calls awaited, each with its item
  lookups,              \* history: signatures getTransaction was called with
  handed,               \* history: entries appendLaunch was called with
  logFile,              \* lines appended to LOG_FILE
  evicted,              \* history: items removed by the feed's overflow path
  settled,              \* history: what each settled getTransaction call did
  queue,                \* watch.ts runWatch: queue
  last,                 \* the handler that ran last, and what a tick found
  assessed,             \* risk.ts: the last assessMintRisk call, input and result
  logText,              \* the content of pumpguard-launches.log, as text
  written,              \* history: the entries appendLaunch wrote to logText
  readBack              \* the last read of the log: by whom, of what, the result

vars == <<env, alive, clock, pendingQueue, droppedDueToOverflow, processing,
          inflight, lookups, handed, logFile, evicted, settled, queue, last,
          assessed, logText, written, readBack>>

\* ------------------------------------------------------------ configuration
\* index.ts: const MINT_FETCH_RPS = (() => { ... })()
MINT_FETCH_RPS ==
  LET raw == env.MINT_FETCH_RPS
      n == IF Truthy(raw) THEN Number(raw) ELSE Num(DefaultFetchRps)
  IN IF ~IsFinite(n) \/ Le(n, Num(0)) THEN Num(DefaultFetchRps) ELSE n

\* Mutant: the environment value is used without the validity check.
MINT_QUEUE_MAX_Unchecked ==
  LET raw == env.MINT_QUEUE_MAX
  IN IF Truthy(raw) THEN Number(raw) ELSE Num(DefaultQueueMax)

\* index.ts: const MINT_QUEUE_MAX = (() => { ... })()
MINT_QUEUE_MAX ==
  LET raw == env.MINT_QUEUE_MAX
      n == IF Truthy(raw) THEN Number(raw) ELSE Num(DefaultQueueMax)
  IN IF ~IsFinite(n) \/ Le(n, Num(MinQueueMax)) THEN Num(DefaultQueueMax) ELSE n

\* watch.ts: const maxQueue = Number(process.env.MINT_QUEUE_MAX ?? "2000")
maxQueue ==
  LET raw == env.MINT_QUEUE_MAX
  IN Number(IF raw = Unset THEN "2000" ELSE raw)

\* a / b as an exact fraction n / d with d > 0
Frac(n, d) == [n |-> n, d |-> d]
FracGe(a, b) == a.n * b.d >= b.n * a.d

\* Math.max(a, b)
MathMax(a, b) == IF FracGe(a, b) THEN a ELSE b

\* ms / rps for a finite rps above zero (rps.h is twice the rate)
Quotient(ms, rps) == Frac(2 * ms, rps.h)

\* Mutant: the interval is 1000 / rate without the floor.
intervalMs_NoFloor == Quotient(MsPerSecond, MINT_FETCH_RPS)

\* startMintWorker: const intervalMs = Math.max(1000 / MINT_FETCH_RPS, 200)
intervalMs ==
  MathMax(Quotient(MsPerSecond, MINT_FETCH_RPS), Frac(FloorIntervalMs, 1))

\* ------------------------------------------------------------------ the feed
\* The n-th log event of the subscription: signatures are unique, two
\* transactions share a slot, and the clock advances with every event.
SigOf(n) == n
SlotOf(n) == (n + 1) \div 2

\* Array.prototype.shift(): the array without its head (an empty array stays empty)
Shift(q) == IF q = <<>> THEN <<>> ELSE Tail(q)

\* index.ts onLogs: pendingQueue.length >= MINT_QUEUE_MAX
QueueFull(q) == Ge(Num(Len(q)), MINT_QUEUE_MAX)

\* Mutant: a full queue drops the new item instead of its head.
PushDropNewest(q, item) == IF QueueFull(q) THEN q ELSE Append(q, item)

\* index.ts onLogs: the queue after the overflow check and the push
PushDropOldest(q, item) == Append(IF QueueFull(q) THEN Shift(q) ELSE q, item)

\* Mutant: the eviction is not counted.
CountDrop_Never(q, n) == n

\* index.ts onLogs: droppedDueToOverflow after the overflow check
CountDrop(q, n) == IF QueueFull(q) THEN n + 1 ELSE n

\* index.ts: the callback passed to connection.onLogs
OnLogs(signature, slot, ts) ==
  LET item == [ts |-> ts, slot |-> slot, signature |-> signature]
  IN /\ pendingQueue' = PushDropOldest(pendingQueue, item)
     /\ droppedDueToOverflow' = CountDrop(pendingQueue, droppedDueToOverflow)
     /\ evicted' = IF QueueFull(pendingQueue) /\ pendingQueue # <<>>
                   THEN Append(evicted, Head(pendingQueue))
                   ELSE evicted

\* watch.ts onLogs: the queue after push and the overflow check
PushThenTrim(q, item) ==
  LET pushed == Append(q, item)
  IN IF Gt(Num(Len(pushed)), maxQueue) THEN Shift(pushed) ELSE pushed

\* watch.ts: const onLogs: LogsCallback
WatchOnLogs(signature, slot, time) ==
  queue' = PushThenTrim(queue, [slot |-> slot, signature |-> signature, time |-> time])

\* One log event of the subscription, delivered to both callbacks.
Feed ==
  /\ alive
  /\ clock < MaxPushes
  /\ clock' = clock + 1
  /\ OnLogs(SigOf(clock'), SlotOf(clock'), clock')
  /\ WatchOnLogs(SigOf(clock'), SlotOf(clock'), clock')
  /\ last' = "feed"
  /\ UNCHANGED <<env, alive, processing, inflight, lookups, handed, logFile,
                 settled, assessed,
                 logText, written, readBack>>

\* ---------------------------------------------------------------- the worker
Null == "<null>"

\* what connection.getTransaction can do: throw, or return a transaction
\* whose meta.postTokenBalances (absent counts as empty) names these mints
Results ==
  { [threw |-> TRUE,  balances |-> <<>>],
    [threw |-> FALSE, balances |-> <<>>],
    [threw |-> FALSE, balances |-> <<"MintB", "MintA">>] }

\* Mutant: the processing guard is missing.
WorkerBusy_NoGuard == FALSE

\* startMintWorker: if (processing) return;
WorkerBusy == processing

\* Mutant: queue.pop() instead of queue.shift().
Dequeue_Newest(q) == [item |-> q[Len(q)], rest |-> SubSeq(q, 1, Len(q) - 1)]

\* startMintWorker: const item = queue.shift()
Dequeue(q) == [item |-> Head(q), rest |-> Tail(q)]

\* Mutant: the lookup is made twice for one item.
LookupCalls_Retry(item) == <<item.signature, item.signature>>

\* startMintWorker: the signatures getTransaction is called with for one item
LookupCalls(item) == <<item.signature>>

\* Mutant: the inner catch is missing, a lookup error reaches the finally.
LookupEscapes_OnThrow(r) == r.threw

\* startMintWorker: the inner try/catch; no lookup error leaves it
LookupEscapes(r) == FALSE

\* startMintWorker: mint after the inner try/catch
MintOf(r) ==
  IF ~r.threw /\ Len(r.balances) > 0 THEN r.balances[1] ELSE Null

\* startMintWorker: const entry: LaunchLogEntry = { ts, slot, signature, url, mint }
EntryOf(item, mint) ==
  [ts |-> item.ts, slot |-> item.slot, signature |-> item.signature,
   url |-> <<"https://solscan.io/tx/", item.signature>>, mint |-> mint]

\* appendLaunch: the line written for an entry (no mint part for a falsy mint)
LineOf(entry) ==
  [ts |-> entry.ts, slot |-> entry.slot, sig |-> entry.signature,
   mintPart |-> IF entry.mint # Null /\ entry.mint # "" THEN <<entry.mint>> ELSE <<>>,
   url |-> entry.url]

\* what a timer tick finds: a lookup in progress, an empty queue, or work
TickFound ==
  IF processing THEN "tick_busy"
  ELSE IF Len(pendingQueue) = 0 THEN "tick_empty" ELSE "tick_idle"

\* Mutant: the flag is set before the guards, and the early return of an
\* empty queue leaves it set.
Tick_FlagBeforeGuard ==
  /\ alive
  /\ (~WorkerBusy /\ Len(pendingQueue) # 0) => Len(lookups) < MaxPops
  /\ last' = TickFound
  /\ IF WorkerBusy
     THEN UNCHANGED <<pendingQueue, processing, inflight, lookups>>
     ELSE IF Len(pendingQueue) = 0
     THEN processing' = TRUE /\ UNCHANGED <<pendingQueue, inflight, lookups>>
     ELSE LET d == Dequeue(pendingQueue)
          IN /\ pendingQueue' = d.rest
             /\ processing' = TRUE
             /\ inflight' = Append(inflight, d.item)
             /\ lookups' = lookups \o LookupCalls(d.item)
  /\ UNCHANGED <<env, alive, clock, droppedDueToOverflow, handed, logFile,
                 evicted, settled, queue, assessed,
                 logText, written, readBack>>

\* The setInterval callback, up to its await of getTransaction.
Tick ==
  /\ alive
  /\ (~WorkerBusy /\ Len(pendingQueue) # 0) => Len(lookups) < MaxPops
  /\ last' = TickFound
  /\ IF WorkerBusy \/ Len(pendingQueue) = 0
     THEN UNCHANGED <<pendingQueue, processing, inflight, lookups>>
     ELSE LET d == Dequeue(pendingQueue)
          IN /\ pendingQueue' = d.rest
             /\ processing' = TRUE
             /\ inflight' = Append(inflight, d.item)
             /\ lookups' = lookups \o LookupCalls(d.item)
  /\ UNCHANGED <<env, alive, clock, droppedDueToOverflow, handed, logFile,
                 evicted, settled, queue, assessed,
                 logText, written, readBack>>

\* The rest of the setInterval callback, once getTransaction has settled:
\* build the entry, appendLaunch, and the finally block.  An error of
\* appendLaunch leaves the async callback as a rejected promise nobody
\* handles; whether the process survives that depends on the Node version.
Settle ==
  /\ alive
  /\ \E i \in 1..Len(inflight), r \in Results, sinkOk \in BOOLEAN, survive \in BOOLEAN :
       LET item == inflight[i]
           entry == EntryOf(item, MintOf(r))
       IN /\ inflight' = SubSeq(inflight, 1, i - 1) \o SubSeq(inflight, i + 1, Len(inflight))
          /\ IF LookupEscapes(r)
             THEN /\ UNCHANGED <<handed, logFile>>
                  /\ alive' = survive
             ELSE /\ handed' = Append(handed, entry)
                  /\ IF sinkOk
                     THEN logFile' = Append(logFile, LineOf(entry)) /\ alive' = alive
                     ELSE logFile' = logFile /\ alive' = survive
          /\ processing' = FALSE
          /\ settled' = Append(settled, r)
  /\ last' = "settle"
  /\ UNCHANGED <<env, clock, pendingQueue, droppedDueToOverflow, lookups,
                 evicted, queue, assessed,
                 logText, written, readBack>>

\* Mutant: the interrupt is caught and the process keeps running.
Interrupt_Ignored ==
  /\ alive
  /\ last' = "sigint"
  /\ UNCHANGED <<env, alive, clock, pendingQueue, droppedDueToOverflow,
                 processing, inflight, lookups, handed, logFile, evicted,
                 settled, queue, assessed,
                 logText, written, readBack>>

\* Ctrl+C ("Press Ctrl+C to stop."): no handler is installed, the timer
\* handle and the subscription id are not kept, so the process just ends.
Interrupt ==
  /\ alive
  /\ alive' = FALSE
  /\ last' = "sigint"
  /\ UNCHANGED <<env, clock, pendingQueue, droppedDueToOverflow, processing,
                 inflight, lookups, handed, logFile, evicted, settled, queue,
                 assessed, logText, written, readBack>>

\* ------------------------------------------------------------ specification
Init ==
  /\ env \in Envs
  /\ alive = TRUE
  /\ clock = 0
  /\ pendingQueue = <<>>
  /\ droppedDueToOverflow = 0
  /\ processing = FALSE
  /\ inflight = <<>>
  /\ lookups = <<>>
  /\ handed = <<>>
  /\ logFile = <<>>
  /\ evicted = <<>>
  /\ settled = <<>>
  /\ queue = <<>>
  /\ last = "start"
  /\ assessed = {}
  /\ logText = ""
  /\ written = <<>>
  /\ readBack = [by |-> "none", of |-> <<>>, entries |-> <<>>]

Next == Feed \/ Tick \/ Settle

Spec == Init /\ [][Next]_vars

\* The pipeline with the operator's Ctrl+C, in the default environment and
\* with a capacity of 101.
InitShutdown == Init /\ env.MINT_QUEUE_MAX \in {Unset, "101"}

NextShutdown == Feed \/ Tick \/ Settle \/ Interrupt

SpecShutdown == InitShutdown /\ [][NextShutdown]_vars

\* The watch pipeline with its scheduling: setInterval keeps firing the tick
\* while the process runs, and every getTransaction call settles.
InitFair == Init /\ env.MINT_QUEUE_MAX = "101"

SpecFair == InitFair /\ [][Next]_vars /\ WF_vars(Tick) /\ WF_vars(Settle)

TypeOK ==
  /\ env \in Envs
  /\ alive \in BOOLEAN
  /\ clock \in 0..MaxPushes
  /\ processing \in BOOLEAN
  /\ droppedDueToOverflow \in Nat
  /\ last \in {"start", "feed", "tick_busy", "tick_empty", "tick_idle", "settle",
               "sigint", "assess", "append", "read", "report"}

\* ------------------------------------------------------------------ claims
\* the item the index.ts callback builds for the n-th log event
ItemAt(n) == [ts |-> n, slot |-> SlotOf(n), signature |-> SigOf(n)]
\* the item the watch.ts callback builds for the n-th log event
WatchItemAt(n) == [slot |-> SlotOf(n), signature |-> SigOf(n), time |-> n]
\* a capacity that is a whole number of items, at least 1
IsCount(c) == c.k = "fin" /\ c.h % 2 = 0 /\ c.h >= 2
CountOf(c) == c.h \div 2
\* the arrival numbers of a sequence of items or entries
Arrivals(q) == [i \in 1..Len(q) |-> q[i].ts]
\* strictly increasing (each element below its successor)
Increasing(f) == \A i \in 1..(Len(f) - 1) : f[i] < f[i + 1]
\* some item's processing has failed: its lookup threw or its line was not written
SomeItemFailed ==
  (\E i \in 1..Len(settled) : settled[i].threw) \/ Len(logFile) < Len(handed)

\* C1: single-flight. In every reachable state at most one getTransaction
\* call is awaited, and while one is awaited the processing flag is set, for
\* every interleaving of ticks, feed callbacks and lookup completions.
C1_SingleFlight ==
  /\ Len(inflight) <= 1
  /\ inflight # <<>> => processing

\* C1 witness: a tick fired while a lookup was in flight and work was queued.
C1_Witness == last = "tick_busy" /\ Len(inflight) = 1 /\ pendingQueue # <<>>

\* C2 (as claimed): after every feed callback and every tick the length of a
\* queue is at most its configured capacity, for every capacity that is a
\* number of at least 1.
C2_QueueBounded ==
  /\ (IsFinite(MINT_QUEUE_MAX) /\ Ge(MINT_QUEUE_MAX, Num(1)))
       => Le(Num(Len(pendingQueue)), MINT_QUEUE_MAX)
  /\ (IsFinite(maxQueue) /\ Ge(maxQueue, Num(1)))
       => Le(Num(Len(queue)), maxQueue)

C4_Fifo ==
  /\ Increasing(Arrivals(handed) \o Arrivals(inflight) \o Arrivals(pendingQueue))
  /\ \A i \in 1..Len(handed) :
       /\ handed[i].ts \in 1..clock
       /\ handed[i].signature = SigOf(handed[i].ts)
       /\ handed[i].slot = SlotOf(handed[i].ts)
  /\ Increasing(Arrivals(evicted))
  /\ (evicted # <<>> /\ pendingQueue # <<>>)
       => evicted[Len(evicted)].ts < pendingQueue[1].ts

\* C4 witness: two survivors were handed to the sink after an older event
\* had been evicted.
C4_Witness ==
  /\ Len(handed) = 2 /\ evicted # <<>>
  /\ evicted[1].ts < handed[1].ts

\* C5: a lookup that throws or yields no token balance still gives exactly
\* one entry handed to the sink, with the event's timestamp, slot and
\* signature and with mint = null.
C5_DegradedRecord ==
  /\ Len(handed) = Len(settled)
  /\ \A i \in 1..Len(handed) :
       (settled[i].threw \/ settled[i].balances = <<>>)
         => /\ handed[i].mint = Null
            /\ handed[i].signature = lookups[i]
            /\ handed[i] = EntryOf(ItemAt(handed[i].ts), Null)

\* C5 witness: one lookup threw, the next returned no balances, and both
\* events were handed to the sink.
C5_Witness ==
  /\ Len(settled) = 2 /\ Len(handed) = 2
  /\ settled[1].threw
  /\ ~settled[2].threw /\ settled[2].balances = <<>>

\* C6 (as claimed): once the processing of an item has failed, by a lookup
\* error or by a sink error, the worker is still running and is idle again
\* as soon as nothing is in flight, so that a later tick dequeues.
C6_WorkerContinues ==
  SomeItemFailed => (alive /\ (inflight = <<>> => ~processing))

\* C7: a tick that fires while a lookup is in flight changes nothing: not
\* the queue, the flag, the calls in flight, the drop counter or the sink.
C7_BusyTickNoOp ==
  [][last' = "tick_busy" =>
       UNCHANGED <<pendingQueue, processing, inflight, lookups,
                   droppedDueToOverflow, evicted, handed, logFile, settled>>]_vars

\* C7 witness: a tick found the worker busy with two events waiting.
C7_Witness == last = "tick_busy" /\ Len(pendingQueue) >= 2

\* C8: a tick that finds the worker idle and the queue non-empty removes
\* exactly the head, starts exactly one lookup for it, and every dequeued
\* event is either in flight or was handed to the sink exactly once.
C8_OnePerTick ==
  /\ [][last' = "tick_idle" =>
          /\ pendingQueue' = Tail(pendingQueue)
          /\ inflight' = Append(inflight, Head(pendingQueue))
          /\ lookups' = Append(lookups, Head(pendingQueue).signature)]_vars
  /\ [](/\ Len(handed) + Len(inflight) = Len(lookups)
        /\ \A i \in 1..Len(handed) : handed[i].signature = lookups[i])

\* C8 witness: two ticks each dequeued one event, both were handed to the
\* sink, and more events are waiting.
C8_Witness == Len(lookups) = 2 /\ Len(handed) = 2 /\ pendingQueue # <<>>

Invalid(raw) ==
  raw # Unset /\ (~IsFinite(Number(raw)) \/ Le(Number(raw), Num(0)))

C11_InFlightCompletes == last = "sigint" => Len(handed) = Len(lookups)

\* C11 (amended): the only shutdown is the end of the process. After it no
\* event is dequeued and nothing reaches the sink any more, also not the
\* record of a resolution that was in flight.
C11_StopIsProcessExit ==
  /\ [](last = "sigint" => ~alive)
  /\ [][~alive =>
          UNCHANGED <<pendingQueue, processing, inflight, lookups, handed,
                      logFile, settled>>]_vars

\* C11 witness: the process was stopped with a resolution in flight and
\* events waiting.
C11_Witness == last = "sigint" /\ inflight # <<>> /\ pendingQueue # <<>>

\* C12: the tick interval is never below 200 ms; it is 1000 / rate for an
\* effective rate of at most 5 per second and 200 ms above that.
C12_RateFloor ==
  LET i == intervalMs
      r == MINT_FETCH_RPS
      upTo5 == r.h * FloorIntervalMs <= 2 * MsPerSecond
  IN /\ i.d > 0
     /\ i.n >= FloorIntervalMs * i.d
     /\ upTo5 => i.n * r.h = 2 * MsPerSecond * i.d
     /\ ~upTo5 => i.n = FloorIntervalMs * i.d

\* C12 witness: a rate of 10 per second is configured and the worker has
\* dequeued an event.
C12_Witness == env.MINT_FETCH_RPS = "10" /\ lookups # <<>>

\* C13: a tick that finds the queue empty (and the worker idle) changes
\* nothing: no lookup starts, nothing reaches the sink, and the queue, the
\* flag and the drop counter stay as they are.
C13_EmptyTickNoOp ==
  [][last' = "tick_empty" =>
       UNCHANGED <<pendingQueue, processing, inflight, lookups,
                   droppedDueToOverflow, evicted, handed, logFile, settled,
                   alive>>]_vars

\* C13 witness: a tick found the queue empty after the worker had drained it.
C13_Witness == last = "tick_empty" /\ handed # <<>> /\ pendingQueue = <<>>

\* ------------------------------------------------------- risk.ts: the scorer
BaselineScore == 50
NativeScore == 10
PumpBonus == 10
UnknownMintPenalty == 20
UninitializedPenalty == 25
RenouncedBonus == 15
MintAuthorityPenalty == 15
FreezeAuthorityPenalty == 10
StandardDecimals == 9
WeirdDecimalsPenalty == 10
ZeroSupplyPenalty == 20
MinScore == 0
MaxScore == 100
LowBelow == 40
HighAbove == 70

NativeMint == "So11111111111111111111111111111111111111112"

\* the mints the scorer is called with
Mints == { NativeMint, "Abc1pump", "pump", "AbcPUMP", "EPjFWdd5" }

\* String.prototype.endsWith
EndsWith(str, suffix) ==
  /\ Len(str) >= Len(suffix)
  /\ SubSeq(str, Len(str) - Len(suffix) + 1, Len(str)) = suffix

\* data.parsed.info of a mint account; an absent decimals or supply is <<>>
Infos ==
  [ decimals : { <<>>, <<0>>, <<6>>, <<9>>, <<10>> },
    supply : { <<>>, <<"0">>, <<"1000000">> },
    mintAuthority : { Null, "Auth1" },
    freezeAuthority : { Null, "Auth2" },
    isInitialized : BOOLEAN ]

\* the info field of a response that carries no mint info
NoInfo ==
  [decimals |-> <<>>, supply |-> <<>>, mintAuthority |-> Null,
   freezeAuthority |-> Null, isInitialized |-> FALSE]

\* what new PublicKey(mint) and connection.getParsedAccountInfo can do:
\* throw, return no account, an account of another program, a token account
\* that is no mint, or a mint with its parsed info
Responses ==
  { [kind |-> k, info |-> NoInfo] : k \in {"throw", "no_account", "other_program", "not_mint"} }
    \cup { [kind |-> "mint", info |-> i] : i \in Infos }

\* Mutant: the checks of data.program and data.parsed.type are missing.
fetchMintInfo_Unchecked(acc) ==
  IF acc.kind \in {"throw", "no_account"} THEN <<>> ELSE <<acc.info>>

\* fetchMintInfo: the parsed info, or null (here <<>>)
fetchMintInfo(acc) == IF acc.kind = "mint" THEN <<acc.info>> ELSE <<>>

\* score += delta; tags.push(tag); reasons.push(reason)
Add(a, delta, tag, reason) ==
  [score |-> a.score + delta, tags |-> Append(a.tags, tag),
   reasons |-> Append(a.reasons, reason)]

\* Array.from(new Set(tags)): first occurrences, in order
RECURSIVE Dedupe(_)
Dedupe(tags) ==
  IF tags = <<>> THEN <<>>
  ELSE LET front == Dedupe(SubSeq(tags, 1, Len(tags) - 1))
           t == tags[Len(tags)]
       IN IF \E i \in 1..Len(front) : front[i] = t THEN front ELSE Append(front, t)

\* levels of buildResult
LevelOf(score) ==
  IF score < LowBelow THEN "LOW"
  ELSE IF score > HighAbove THEN "HIGH" ELSE "MEDIUM"

\* Mutant: the raw score is not clamped.
buildResult_NoClamp(mint, rawScore, tags, reasons) ==
  [mint |-> mint, score |-> rawScore, level |-> LevelOf(rawScore),
   tags |-> Dedupe(tags), reasons |-> reasons]

\* Mutant: HIGH starts at 70 instead of above 70.
buildResult_HighFrom70(mint, rawScore, tags, reasons) ==
  LET min == IF rawScore < MaxScore THEN rawScore ELSE MaxScore
      score == IF min > MinScore THEN min ELSE MinScore
  IN [mint |-> mint, score |-> score,
      level |-> IF score < LowBelow THEN "LOW"
                ELSE IF score >= HighAbove THEN "HIGH" ELSE "MEDIUM",
      tags |-> Dedupe(tags), reasons |-> reasons]

\* buildResult
buildResult(mint, rawScore, tags, reasons) ==
  LET min == IF rawScore < MaxScore THEN rawScore ELSE MaxScore
      score == IF min > MinScore THEN min ELSE MinScore
  IN [mint |-> mint, score |-> score, level |-> LevelOf(score),
      tags |-> Dedupe(tags), reasons |-> reasons]

\* Mutant: the wrapped SOL mint is not recognised.
IsNative_Never(mint) == FALSE

\* assessMintRisk: mint === "So11111111111111111111111111111111111111112"
IsNative(mint) == mint = NativeMint

\* Mutant: the pump.fun tag is pushed without the bonus.
SuffixRule_TagOnly(a, mint) ==
  IF EndsWith(mint, "pump")
  THEN Add(a, 0, "PUMP_FUN_STYLE", "Mint address ends with 'pump' (pump.fun style mint).")
  ELSE a

\* assessMintRisk: pump.fun-style mint naming pattern
SuffixRule(a, mint) ==
  IF EndsWith(mint, "pump")
  THEN Add(a, PumpBonus, "PUMP_FUN_STYLE", "Mint address ends with 'pump' (pump.fun style mint).")
  ELSE a

\* assessMintRisk: if (!isInitialized)
UninitializedRule(a, info) ==
  IF ~info.isInitialized
  THEN Add(a, UninitializedPenalty, "UNINITIALIZED_MINT", "Mint account is not initialized.")
  ELSE a

\* Mutant: the renounced tag is pushed without the bonus.
AuthorityRule_NoBonus(a, info) ==
  LET mintAuthority == info.mintAuthority # Null /\ info.mintAuthority # ""
      freezeAuthority == info.freezeAuthority # Null /\ info.freezeAuthority # ""
      a1 == IF mintAuthority
            THEN Add(a, MintAuthorityPenalty, "MINT_AUTHORITY_SET",
                     "Mint authority is still set (can mint more tokens).")
            ELSE a
  IN IF ~mintAuthority /\ ~freezeAuthority
     THEN Add(a, 0, "RENOUNCED", "No mintAuthority or freezeAuthority (looks renounced).")
     ELSE IF freezeAuthority
          THEN Add(a1, FreezeAuthorityPenalty, "FREEZE_AUTHORITY_SET",
                   "Freeze authority is set (tokens can potentially be frozen).")
          ELSE a1

\* assessMintRisk: mint authority / freeze authority
AuthorityRule(a, info) ==
  LET mintAuthority == info.mintAuthority # Null /\ info.mintAuthority # ""
      freezeAuthority == info.freezeAuthority # Null /\ info.freezeAuthority # ""
      a1 == IF mintAuthority
            THEN Add(a, MintAuthorityPenalty, "MINT_AUTHORITY_SET",
                     "Mint authority is still set (can mint more tokens).")
            ELSE a
  IN IF ~mintAuthority /\ ~freezeAuthority
     THEN Add(a, 0 - RenouncedBonus, "RENOUNCED",
              "No mintAuthority or freezeAuthority (looks renounced).")
     ELSE IF freezeAuthority
          THEN Add(a1, FreezeAuthorityPenalty, "FREEZE_AUTHORITY_SET",
                   "Freeze authority is set (tokens can potentially be frozen).")
          ELSE a1

\* assessMintRisk: const decimals = Number(info.decimals ?? 0)
DecimalsOf(info) == IF info.decimals = <<>> THEN 0 ELSE info.decimals[1]

\* assessMintRisk: decimals heuristic (the dash of the reason is written "-")
DecimalsRule(a, info) ==
  LET decimals == DecimalsOf(info)
  IN IF decimals = StandardDecimals
     THEN Add(a, 0, "DECIMALS_9", "Standard 9 decimal token (common on Solana).")
     ELSE IF decimals > StandardDecimals
          THEN Add(a, WeirdDecimalsPenalty, "WEIRD_DECIMALS",
                   "Unusual decimals (" \o ToString(decimals)
                     \o ") - non-standard configuration.")
          ELSE a

\* assessMintRisk: const supply = Number(info.supply ?? "0")
SupplyOf(info) == Number(IF info.supply = <<>> THEN "0" ELSE info.supply[1])

\* assessMintRisk: supply heuristic
SupplyRule(a, info) ==
  IF SupplyOf(info) = Num(0)
  THEN Add(a, ZeroSupplyPenalty, "ZERO_SUPPLY",
           "Total supply is zero; may not be fully launched.")
  ELSE a

\* assessMintRisk: tags, reasons and score at the start of a call
Fresh == [score |-> BaselineScore, tags |-> <<>>, reasons |-> <<>>]

\* assessMintRisk(ctx, connection), with acc what the RPC answers if asked.
\* The result is the RiskAssessment (out), the score handed to buildResult
\* (raw), and the number of fetchMintInfo calls made (fetches).
assessMintRisk(mint, connection, acc) ==
  LET done(a, n) ==
        [out |-> buildResult(mint, a.score, a.tags, a.reasons),
         raw |-> a.score, fetches |-> n]
      a1 == SuffixRule(Fresh, mint)
      found == fetchMintInfo(acc)
      info == found[1]
  IN IF IsNative(mint)
     THEN done([score |-> NativeScore, tags |-> <<"NATIVE_SOL">>,
                reasons |-> <<"This is the wrapped SOL mint, not a memecoin.">>], 0)
     ELSE IF ~connection
     THEN done(Add(a1, 0, "NO_RPC",
                   "RPC_ENDPOINT not set; on-chain metadata not checked."), 0)
     ELSE IF found = <<>>
     THEN done(Add(a1, UnknownMintPenalty, "MINT_UNKNOWN",
                   "Mint account not found or not SPL Token mint."), 1)
     ELSE done(SupplyRule(DecimalsRule(AuthorityRule(
                 UninitializedRule(a1, info), info), info), info), 1)

\* One call of assessMintRisk; without a connection nothing is asked.
Assess ==
  /\ \E mint \in Mints, connection \in BOOLEAN, acc \in Responses :
       /\ connection \/ acc.kind = "no_account"
       /\ assessed' = { [mint |-> mint, connection |-> connection, acc |-> acc,
                         res |-> assessMintRisk(mint, connection, acc)] }
  /\ last' = "assess"
  /\ UNCHANGED <<env, alive, clock, pendingQueue, droppedDueToOverflow,
                 processing, inflight, lookups, handed, logFile, evicted,
                 settled, queue, logText, written, readBack>>

InitRisk == Init /\ env.MINT_QUEUE_MAX = Unset

NextRisk == Assess

SpecRisk == InitRisk /\ [][NextRisk]_vars

\* ------------------------------------------------- claims about the scorer
TagSet(a) == { a.res.out.tags[i] : i \in DOMAIN a.res.out.tags }

\* the tags of the rules that read the chain metadata
InfoTags ==
  { "UNINITIALIZED_MINT", "RENOUNCED", "MINT_AUTHORITY_SET",
    "FREEZE_AUTHORITY_SET", "DECIMALS_9", "WEIRD_DECIMALS", "ZERO_SUPPLY" }

ChainTags == InfoTags \cup { "MINT_UNKNOWN" }

\* C14: for every mint, every availability of the metadata source and every
\* metadata value the exposed score lies in 0..100, also when the baseline
\* plus the rule deltas leaves that range.
C14_ScoreClamped ==
  \A a \in assessed :
    /\ a.res.out.score \in 0..100
    /\ a.res.raw \in 0..100 => a.res.out.score = a.res.raw
    /\ a.res.raw > 100 => a.res.out.score = 100
    /\ a.res.raw < 0 => a.res.out.score = 0

C14_Witness == \E a \in assessed : a.res.raw > 100 /\ a.res.out.score = 100

C16_NativeAssetTag ==
  \A a \in assessed :
    a.mint = "So11111111111111111111111111111111111111112" =>
      /\ a.res.out.score = 10
      /\ a.res.out.level = "LOW"
      /\ TagSet(a) = { "NATIVE_ASSET" }
      /\ a.res.fetches = 0

\* C16 (amended): for the wrapped SOL mint, whatever the metadata source and
\* whatever it would answer, the result is score 10, level LOW, the single
\* tag NATIVE_SOL and a single reason; no metadata lookup is made.
C16_NativeShortCircuit ==
  \A a \in assessed :
    a.mint = "So11111111111111111111111111111111111111112" =>
      /\ a.res.out.score = 10
      /\ a.res.out.level = "LOW"
      /\ a.res.out.tags = << "NATIVE_SOL" >>
      /\ Len(a.res.out.reasons) = 1
      /\ a.res.fetches = 0

C16_Witness ==
  \E a \in assessed :
    /\ a.mint = "So11111111111111111111111111111111111111112"
    /\ a.connection
    /\ a.acc.kind = "mint"
    /\ a.acc.info.mintAuthority # Null
    /\ a.acc.info.supply = << "0" >>
    /\ a.res.out.score = 10

\* C17 (as claimed): without a metadata source, a mint ending in "pump"
\* scores 50 + 10 with tag set exactly {PLATFORM_STYLE, NO_CHAIN_DATA}.
C17_PlatformStyleTags ==
  \A a \in assessed :
    ~a.connection /\ EndsWith(a.mint, "pump") =>
      /\ a.res.out.score = 50 + 10
      /\ TagSet(a) = { "PLATFORM_STYLE", "NO_CHAIN_DATA" }
      /\ TagSet(a) \cap ChainTags = {}

\* C17 (amended): without a metadata source, a mint ending in "pump" scores
\* 50 + 10 with tag set exactly {PUMP_FUN_STYLE, NO_RPC}; no chain-based rule
\* adds a delta or a tag and no lookup is made.
C17_NoRpcShortCircuit ==
  \A a \in assessed :
    ~a.connection /\ EndsWith(a.mint, "pump") =>
      /\ a.res.raw = 50 + 10
      /\ a.res.out.score = 50 + 10
      /\ TagSet(a) = { "PUMP_FUN_STYLE", "NO_RPC" }
      /\ TagSet(a) \cap ChainTags = {}
      /\ a.res.fetches = 0

C17_Witness ==
  \E a \in assessed :
    ~a.connection /\ a.mint = "Abc1pump" /\ a.res.out.score = 60

\* C18 (as claimed): for every mint other than wrapped SOL, with a metadata
\* source whose lookup returns nothing or fails, the score is 50 + 20, the
\* tags include MINT_UNKNOWN and no later chain-based rule adds a tag.
C18_UnknownIs70 ==
  \A a \in assessed :
    /\ a.mint # "So11111111111111111111111111111111111111112"
    /\ a.connection
    /\ a.acc.kind # "mint"
    => /\ a.res.out.score = 50 + 20
       /\ "MINT_UNKNOWN" \in TagSet(a)
       /\ TagSet(a) \cap InfoTags = {}

\* C18 (amended): for every mint other than wrapped SOL, with a metadata
\* source whose lookup returns nothing or fails, the score is 50 + 20, plus
\* the suffix bonus 10 when the mint ends in "pump"; the tags include
\* MINT_UNKNOWN and no later chain-based rule adds a delta or a tag.
C18_UnknownMint ==
  \A a \in assessed :
    /\ a.mint # "So11111111111111111111111111111111111111112"
    /\ a.connection
    /\ a.acc.kind # "mint"
    => /\ a.res.raw = 50 + 20 + (IF EndsWith(a.mint, "pump") THEN 10 ELSE 0)
       /\ a.res.out.score = a.res.raw
       /\ "MINT_UNKNOWN" \in TagSet(a)
       /\ TagSet(a) \cap InfoTags = {}
       /\ a.res.fetches = 1

C18_Witness ==
  \E a \in assessed :
    /\ a.mint = "Abc1pump"
    /\ a.connection
    /\ a.acc.kind = "not_mint"
    /\ a.res.out.score = 80

\* C19: with metadata present, both authorities unset and supply zero, the raw
\* score is 50 - 15 + 20 plus the deltas of the uninitialized (25), decimals
\* (10 above 9) and suffix (10) rules that apply, the exposed score is that
\* sum clamped to 0..100, and the tags include RENOUNCED and ZERO_SUPPLY and
\* neither MINT_AUTHORITY_SET nor FREEZE_AUTHORITY_SET.
C19_AdditiveComposition ==
  \A a \in assessed :
    /\ a.mint # "So11111111111111111111111111111111111111112"
    /\ a.connection
    /\ a.acc.kind = "mint"
    /\ a.acc.info.mintAuthority = Null
    /\ a.acc.info.freezeAuthority = Null
    /\ a.acc.info.supply \in { <<>>, << "0" >> }
    => LET info == a.acc.info
           sum == 50 - 15 + 20
                    + (IF info.isInitialized THEN 0 ELSE 25)
                    + (IF info.decimals # <<>> /\ info.decimals[1] > 9 THEN 10 ELSE 0)
                    + (IF EndsWith(a.mint, "pump") THEN 10 ELSE 0)
       IN /\ a.res.raw = sum
          /\ a.res.out.score = IF sum > 100 THEN 100 ELSE IF sum < 0 THEN 0 ELSE sum
          /\ { "RENOUNCED", "ZERO_SUPPLY" } \subseteq TagSet(a)
          /\ TagSet(a) \cap { "MINT_AUTHORITY_SET", "FREEZE_AUTHORITY_SET" } = {}

C19_Witness ==
  \E a \in assessed :
    /\ a.mint = "Abc1pump"
    /\ a.connection
    /\ a.acc.kind = "mint"
    /\ a.acc.info.mintAuthority = Null
    /\ a.acc.info.freezeAuthority = Null
    /\ a.acc.info.supply = << "0" >>
    /\ ~a.acc.info.isInitialized
    /\ a.acc.info.decimals = << 10 >>
    /\ a.res.out.score = 100

\* ------------------------------------------- the launch log, read back as text
MaxLines == 2

\* the character of str at position i
CharAt(str, i) == SubSeq(str, i, i)

\* the regular expression classes \s, \S (also written [^\s]), \d and .
InClass(cls, c) ==
  CASE cls = "space"    -> c \in { " ", "\t", "\n", "\r" }
    [] cls = "nonspace" -> c \notin { " ", "\t", "\n", "\r" }
    [] cls = "digit"    -> c \in { "0", "1", "2", "3", "4", "5", "6", "7", "8", "9" }
    [] cls = "any"      -> c \notin { "\n", "\r" }

\* how many characters of str from position p on are in the class
Run(cls, str, p) ==
  LET out == { i \in p..Len(str) : ~InClass(cls, CharAt(str, i)) }
  IN IF out = {} THEN Len(str) - p + 1
     ELSE (CHOOSE i \in out : \A j \in out : i <= j) - p

\* str has the literal lit at position p
StartsAt(str, p, lit) ==
  /\ p + Len(lit) - 1 <= Len(str)
  /\ SubSeq(str, p, p + Len(lit) - 1) = lit

\* the parts of a regular expression: a literal, a quantified class (at least
\* min characters, greedy or lazy, captured under cap unless cap is ""), and
\* an optional non-capturing group
Lit(lit) == [kind |-> "lit", lit |-> lit, cls |-> "", min |-> 0, greedy |-> TRUE, cap |-> "", sub |-> <<>>]
Cls(cls, min, greedy, cap) ==
  [kind |-> "cls", lit |-> "", cls |-> cls, min |-> min, greedy |-> greedy, cap |-> cap, sub |-> <<>>]
Opt(sub) == [kind |-> "opt", lit |-> "", cls |-> "", min |-> 0, greedy |-> TRUE, cap |-> "", sub |-> sub]

\* a capture group that took part in no match
Undefined == "<undefined>"

NoCaptures ==
  [ts |-> Undefined, slot |-> Undefined, sig |-> Undefined, mint |-> Undefined,
   url |-> Undefined]

NoMatch == [ok |-> FALSE, caps |-> NoCaptures]

\* The backtracking match of the parts elems against str from position p:
\* a greedy class takes the longest run the rest of the expression can follow,
\* a lazy one the shortest, an optional group is tried before it is skipped.
\* TryLen tries the lengths a class can take, cands, in that order.
RECURSIVE Match(_, _, _, _), TryLen(_, _, _, _, _, _)
TryLen(e, rest, str, p, cands, caps) ==
  IF cands = {} THEN NoMatch
  ELSE LET n == IF e.greedy THEN CHOOSE m \in cands : \A k \in cands : k <= m
                ELSE CHOOSE m \in cands : \A k \in cands : m <= k
           taken == IF e.cap = "" THEN caps
                    ELSE [caps EXCEPT ![e.cap] = SubSeq(str, p, p + n - 1)]
           r == Match(rest, str, p + n, taken)
       IN IF r.ok THEN r ELSE TryLen(e, rest, str, p, cands \ {n}, caps)

Match(elems, str, p, caps) ==
  IF elems = <<>> THEN [ok |-> TRUE, caps |-> caps]
  ELSE LET e == Head(elems)
           rest == Tail(elems)
       IN CASE e.kind = "lit" ->
                 IF StartsAt(str, p, e.lit)
                 THEN Match(rest, str, p + Len(e.lit), caps) ELSE NoMatch
            [] e.kind = "opt" ->
                 LET with == Match(e.sub \o rest, str, p, caps)
                 IN IF with.ok THEN with ELSE Match(rest, str, p, caps)
            [] e.kind = "cls" ->
                 \* a length after which a literal must follow is tried only
                 \* where that literal stands
                 LET follows(n) == rest # <<>> /\ Head(rest).kind = "lit"
                                     => StartsAt(str, p + n, Head(rest).lit)
                     cands == { n \in e.min..Run(e.cls, str, p) : follows(n) }
                 IN TryLen(e, rest, str, p, cands, caps)

\* String.prototype.match / RegExp.prototype.exec without the g flag: the
\* match at the leftmost position that has one; anchored is a leading ^
RECURSIVE ExecFrom(_, _, _)
ExecFrom(elems, str, starts) ==
  IF starts = {} THEN NoMatch
  ELSE LET p == CHOOSE q \in starts : \A k \in starts : q <= k
           r == Match(elems, str, p, NoCaptures)
       IN IF r.ok THEN r ELSE ExecFrom(elems, str, starts \ {p})

Exec(elems, anchored, str) ==
  LET opens(p) == Head(elems).kind = "lit" => StartsAt(str, p, Head(elems).lit)
  IN ExecFrom(elems, str,
              { p \in 1..(IF anchored THEN 1 ELSE Len(str) + 1) : opens(p) })

\* String.prototype.trim
RECURSIVE Trim(_)
Trim(str) ==
  IF Len(str) = 0 THEN str
  ELSE IF InClass("space", CharAt(str, 1)) THEN Trim(SubSeq(str, 2, Len(str)))
  ELSE IF InClass("space", CharAt(str, Len(str))) THEN Trim(SubSeq(str, 1, Len(str) - 1))
  ELSE str

\* String.prototype.split("\n")
RECURSIVE Split(_)
Split(str) ==
  LET nl == { i \in 1..Len(str) : CharAt(str, i) = "\n" }
      first == CHOOSE i \in nl : \A j \in nl : i <= j
  IN IF nl = {} THEN << str >>
     ELSE << SubSeq(str, 1, first - 1) >> \o Split(SubSeq(str, first + 1, Len(str)))

\* Number(str) for a string of decimal digits
RECURSIVE DigitsToNumber(_)
DigitsToNumber(str) ==
  LET digit(c) == CHOOSE d \in 0..9 : ToString(d) = c
  IN IF Len(str) = 0 THEN 0
     ELSE 10 * DigitsToNumber(SubSeq(str, 1, Len(str) - 1)) + digit(CharAt(str, Len(str)))

\* the LaunchLogEntry values the worker hands to appendLaunch: an ISO
\* timestamp, a slot, a base58 signature, its solscan URL and the mint the
\* lookup found, or null
LaunchLogEntries ==
  { [ts |-> ts, slot |-> slot, signature |-> sig,
     url |-> "https://solscan.io/tx/" \o sig, mint |-> mint] :
      ts \in { "2026-01-01T00:00:00.000Z" },
      slot \in { 7, 310 },
      sig \in { "5sig" },
      mint \in { Null, "Abc1pump", "mint9" } }

\* appendLaunch: the line of an entry, without the newline
LineText(entry) ==
  LET mintPart == IF entry.mint # Null /\ entry.mint # ""
                  THEN " mint=" \o entry.mint ELSE ""
  IN "[" \o entry.ts \o "] slot=" \o ToString(entry.slot) \o " sig="
       \o entry.signature \o mintPart \o " url=" \o entry.url

\* index.ts parseLogLine:
\* /^\[(.+?)\]\s+slot=(\d+)\s+sig=([^\s]+)(?:\s+mint=([^\s]+))?\s+url=(\S+)/
LineRegex ==
  << Lit("["), Cls("any", 1, FALSE, "ts"), Lit("]"),
     Cls("space", 1, TRUE, ""), Lit("slot="), Cls("digit", 1, TRUE, "slot"),
     Cls("space", 1, TRUE, ""), Lit("sig="), Cls("nonspace", 1, TRUE, "sig"),
     Opt(<< Cls("space", 1, TRUE, ""), Lit("mint="), Cls("nonspace", 1, TRUE, "mint") >>),
     Cls("space", 1, TRUE, ""), Lit("url="), Cls("nonspace", 1, TRUE, "url") >>

\* index.ts parseLogLine: the entry of a line, or null (here <<>>)
parseLogLine(line) ==
  LET m == Exec(LineRegex, TRUE, Trim(line))
  IN IF ~m.ok THEN <<>>
     ELSE << [ts |-> m.caps.ts, slot |-> DigitsToNumber(m.caps.slot),
              signature |-> m.caps.sig, url |-> m.caps.url,
              mint |-> IF m.caps.mint = Undefined THEN Null ELSE m.caps.mint] >>

RECURSIVE ParseLines(_)
ParseLines(lines) ==
  IF lines = <<>> THEN <<>>
  ELSE (IF Len(Trim(Head(lines))) > 0 THEN parseLogLine(Trim(Head(lines))) ELSE <<>>)
         \o ParseLines(Tail(lines))

\* index.ts readAllEntries: split, trim, drop the empty lines, keep the
\* lines that parse
readAllEntries == ParseLines(Split(logText))

\* risk-report.ts parseLogFile:
\* /\[(?<time>.+?)\].*slot=(?<slot>\d+).*sig=(?<sig>\S+).*mint=(?<mint>\S+).*url=(?<url>\S+)/
RawPattern ==
  << Lit("["), Cls("any", 1, FALSE, "ts"), Lit("]"),
     Cls("any", 0, TRUE, ""), Lit("slot="), Cls("digit", 1, TRUE, "slot"),
     Cls("any", 0, TRUE, ""), Lit("sig="), Cls("nonspace", 1, TRUE, "sig"),
     Cls("any", 0, TRUE, ""), Lit("mint="), Cls("nonspace", 1, TRUE, "mint"),
     Cls("any", 0, TRUE, ""), Lit("url="), Cls("nonspace", 1, TRUE, "url") >>

RECURSIVE MatchLines(_)
MatchLines(lines) ==
  IF lines = <<>> THEN <<>>
  ELSE LET m == Exec(RawPattern, FALSE, Head(lines))
       IN (IF ~m.ok THEN <<>>
           ELSE << [time |-> m.caps.ts, slot |-> DigitsToNumber(m.caps.slot),
                    sig |-> m.caps.sig, mint |-> m.caps.mint, url |-> m.caps.url] >>)
            \o MatchLines(Tail(lines))

\* readline over the file: its lines; a newline at the end starts no line
ReadlineLines(text) ==
  LET parts == Split(text)
  IN IF parts[Len(parts)] = "" THEN SubSeq(parts, 1, Len(parts) - 1) ELSE parts

\* risk-report.ts parseLogFile: the entries of the lines the pattern matches
parseLogFile == MatchLines(ReadlineLines(logText))

\* appendLaunch(entry): fs.appendFileSync(LOG_FILE, line + "\n")
AppendLaunch ==
  /\ Len(written) < MaxLines
  /\ \E entry \in LaunchLogEntries :
       /\ logText' = logText \o LineText(entry) \o "\n"
       /\ written' = Append(written, entry)
  /\ last' = "append"
  /\ UNCHANGED <<env, alive, clock, pendingQueue, droppedDueToOverflow,
                 processing, inflight, lookups, handed, logFile, evicted,
                 settled, queue, assessed, readBack>>

\* index.ts stats and export modes: const entries = readAllEntries()
ReadAllEntries ==
  /\ readBack' = [by |-> "readAllEntries", of |-> written, entries |-> readAllEntries]
  /\ last' = "read"
  /\ UNCHANGED <<env, alive, clock, pendingQueue, droppedDueToOverflow,
                 processing, inflight, lookups, handed, logFile, evicted,
                 settled, queue, assessed, logText, written>>

\* risk-report.ts main: const launches = await parseLogFile()
ParseLogFile ==
  /\ readBack' = [by |-> "parseLogFile", of |-> written, entries |-> parseLogFile]
  /\ last' = "report"
  /\ UNCHANGED <<env, alive, clock, pendingQueue, droppedDueToOverflow,
                 processing, inflight, lookups, handed, logFile, evicted,
                 settled, queue, assessed, logText, written>>

InitLog == Init /\ env.MINT_QUEUE_MAX = Unset

NextLog == AppendLaunch \/ ReadAllEntries \/ ParseLogFile

SpecLog == InitLog /\ [][NextLog]_vars

\* ---------------------------------------------------- claims about the log
\* the five fields of a read-back entry, under the names of LaunchLogEntry
AsLaunchLogEntry(e) ==
  IF "time" \in DOMAIN e
  THEN [ts |-> e.time, slot |-> e.slot, signature |-> e.sig, url |-> e.url,
        mint |-> e.mint]
  ELSE e

\* C21: whatever the sink wrote, with a mint or with mint null, each parser
\* of the log reads back exactly the written entries, in order, with the same
\* timestamp, slot, signature, mint and URL; none is rejected or altered.
C21_RoundTrip ==
  readBack.by # "none" =>
    /\ Len(readBack.entries) = Len(readBack.of)
    /\ \A i \in 1..Len(readBack.of) :
         AsLaunchLogEntry(readBack.entries[i]) = readBack.of[i]

\* ------------------------------------------- claims about the whole pipeline
\* the arrival numbers of the events of a sequence of items, entries or lines
ArrivalSet(seq) == { seq[i].ts : i \in 1..Len(seq) }

\* C22: conservation. As long as the sink has not failed, every event the
\* feed delivered is in exactly one place: evicted by overflow, waiting in the
\* queue, in flight in the worker (at most one), or appended to the sink. So
\* the four counts add up to the number of events delivered, and an event the
\* worker has dequeued is never evicted.
C22_Conservation ==
  Len(logFile) = Len(handed) =>
    LET E == ArrivalSet(evicted)
        Q == ArrivalSet(pendingQueue)
        F == ArrivalSet(inflight)
        L == ArrivalSet(logFile)
    IN /\ Len(inflight) <= 1
       /\ clock = Len(evicted) + Len(pendingQueue) + Len(inflight) + Len(logFile)
       /\ E \cup Q \cup F \cup L = 1..clock
       /\ Cardinality(E) + Cardinality(Q) + Cardinality(F) + Cardinality(L) = clock

\* C22 witness: while an event is in flight, an overflow has just evicted an
\* event that arrived after it.
C22_Witness ==
  /\ last = "feed"
  /\ Len(inflight) = 1 /\ evicted # <<>>
  /\ Len(logFile) = Len(handed)
  /\ evicted[Len(evicted)].ts > inflight[1].ts

\* C23: progress. With the timer firing and every lookup settling, every
\* event pushed to the queue is eventually evicted by overflow or appended to
\* the sink (stated for the first MaxPops events, which are the ones the
\* worker dequeues within the bound on lookups), the in-progress flag never
\* stays true forever, and while a lookup has not returned no further event
\* is dequeued.
C23_Progress ==
  /\ \A n \in 1..MaxPops :
       (clock >= n) ~> (n \in ArrivalSet(evicted) \/ n \in ArrivalSet(logFile))
  /\ processing ~> ~processing
  /\ [][inflight # <<>> => lookups' = lookups]_vars

\* C24: the overflow handling of the two feed callbacks is equivalent. With
\* the same capacity C >= 1 and the same pushes (and no pop, which watch.ts
\* does not have), index.ts (evict the head if length >= C, then push) and
\* watch.ts (push, then evict the head if length > C) hold the same events in
\* the same order after every callback.
C24_SameQueue ==
  (lookups = <<>> /\ MINT_QUEUE_MAX = maxQueue /\ Ge(maxQueue, Num(1))) =>
    /\ Len(pendingQueue) = Len(queue)
    /\ \A i \in 1..Len(queue) :
         /\ pendingQueue[i].ts = queue[i].time
         /\ pendingQueue[i].slot = queue[i].slot
         /\ pendingQueue[i].signature = queue[i].signature

====
